---- MODULE Spec2Model ----
(***************************************************************************)
(* Model of django_private_chat2/models.py: the dialog table with its      *)
(* ordered-pair uniqueness constraint, the message table with its read and *)
(* soft-delete flags, the Dialog value type, and the request handlers that *)
(* call MessageModel.save and DialogsModel.create_if_not_exists            *)
(* concurrently.  Every database statement is one atomic step (the code    *)
(* opens no transaction, so each statement commits on its own).  A handler *)
(* that saves a stored message first loads the row into an instance; the   *)
(* save writes every column of that instance, whatever the row holds by    *)
(* then.  The operations modelled are those of models.py: the save of a    *)
(* new or a stored message, the soft delete, create_if_not_exists and the  *)
(* queries.  Removal of rows by Django itself (delete(soft=False), the     *)
(* cascade of a deleted user) is not an operation of this model.           *)
(***************************************************************************)
EXTENDS Integers, Sequences, FiniteSets

\* Number of rows of the user table (the AUTH_USER_MODEL the keys point to).
NumUsers == 2
\* Number of concurrent request handlers.
NumProcs == 2
\* Cap on the number of message rows ever inserted.
MaxMessages == 2
\* Number of distinct readings of the clock that stamps created.
MaxTime == 2

Users == 1..NumUsers
Procs == 1..NumProcs

\* Python's None, as returned by QuerySet.first() on an empty result.
None == 0

VARIABLES
    dialogs,    \* DialogsModel table: sequence of rows, row i has id i
    messages,   \* MessageModel table: sequence of rows, row i has id i
    pc,         \* per handler: position inside the running call
    call,       \* per handler: the call it is running, NoCall between calls
    returned,   \* the call that returned last, with how it ended
    d1, d2,     \* value model: the two Dialog values under comparison
    vmPc,       \* value model: "off", "ready" or "compared"
    eqRes       \* value model: results of comparing d1 with d2, d2 with d1, d1 with d1

dbVars == <<dialogs, messages, pc, call, returned>>
vmVars == <<d1, d2, vmPc, eqRes>>
vars == <<dialogs, messages, pc, call, returned, d1, d2, vmPc, eqRes>>

\* A row of the DialogsModel table (its id is its position in dialogs).
DialogsModel == [user1 : Users, user2 : Users]

\* A row of the MessageModel table (its id is its position in messages);
\* is_removed is the soft-delete flag inherited from SoftDeletableModel.
MessageModel == [sender : Users, recipient : Users, read : BOOLEAN, is_removed : BOOLEAN]

\* A row of the MessageModel table with the created column of
\* TimeStampedModel.
TimedMessageModel ==
    [sender : Users, recipient : Users, read : BOOLEAN, is_removed : BOOLEAN,
     created : 1..MaxTime]

----------------------------------------------------------------------------
(* Value model *)

DialogUser == [id : Users, was_online : {None, 1}, is_online : BOOLEAN]

Dialog == [id : {"a", "b"}, creator : DialogUser, opponent : DialogUser]

\* A mutant: the dataclass's default field-wise equality.
Dialog__eq__Structural(self, other) == self = other

\* Dialog.__eq__
Dialog__eq__(self, other) ==
    \/ (self.creator.id = other.opponent.id /\ self.opponent.id = other.creator.id)
    \/ (self.creator.id = other.creator.id /\ self.opponent.id = other.opponent.id)

----------------------------------------------------------------------------
(* Dialog table *)

\* Indices (ids) of the dialog rows selected by
\* filter(Q(user1=u1, user2=u2) | Q(user1=u2, user2=u1)).
DialogFilter(u1, u2) ==
    {i \in DOMAIN dialogs :
        \/ (dialogs[i].user1 = u1 /\ dialogs[i].user2 = u2)
        \/ (dialogs[i].user1 = u2 /\ dialogs[i].user2 = u1)}

\* QuerySet.first(): the row of least primary key, or None.
First(ids) == IF ids = {} THEN None ELSE CHOOSE i \in ids : \A j \in ids : i <= j

\* A mutant: the lookup forgets the opposite orientation.
dialog_exists_one_way(u1, u2) ==
    First({i \in DOMAIN dialogs : dialogs[i].user1 = u1 /\ dialogs[i].user2 = u2})

\* DialogsModel.dialog_exists
dialog_exists(u1, u2) == First(DialogFilter(u1, u2))

\* A mutant: no uniqueness constraint is declared.
UniqueDialogNone(u1, u2) == TRUE

\* The constraint UniqueConstraint(fields=['user1', 'user2']): may a row with
\* this ordered pair be inserted?
UniqueDialog(u1, u2) ==
    \A i \in DOMAIN dialogs : ~(dialogs[i].user1 = u1 /\ dialogs[i].user2 = u2)

\* The sequences without repetition of all members of S.
RECURSIVE Permutations(_)
Permutations(S) ==
    IF S = {} THEN {<<>>}
    ELSE UNION {{<<x>> \o l : l \in Permutations(S \ {x})} : x \in S}

\* The (user1, user2) of the dialog rows ids, in each order of the rows.
ValuesList(ids) ==
    {[k \in DOMAIN l |-> <<dialogs[l[k]].user1, dialogs[l[k]].user2>>] :
        l \in Permutations(ids)}

\* A mutant: the filter forgets Q(user2=user).
get_dialogs_for_user_as_user1(user) ==
    ValuesList({i \in DOMAIN dialogs : dialogs[i].user1 = user})

\* DialogsModel.get_dialogs_for_user: the (user1, user2) of the selected
\* rows.  The query has no ORDER BY and DialogsModel declares no ordering, so
\* the database may return the rows in any order: the value is the set of
\* the sequences the call may return.
get_dialogs_for_user(user) ==
    ValuesList({i \in DOMAIN dialogs :
        dialogs[i].user1 = user \/ dialogs[i].user2 = user})

----------------------------------------------------------------------------
(* Message table *)

\* MessageModel.objects, the SoftDeletableManager inherited from
\* SoftDeletableModel: ids of the rows that are not soft-deleted.
objects == {i \in DOMAIN messages : ~messages[i].is_removed}

\* MessageModel.all_objects, a plain Manager: ids of all rows.
all_objects == DOMAIN messages

\* A mutant: the count forgets the direction of the messages.
get_unread_count_both_ways(sender, recipient) ==
    Cardinality({i \in objects :
        /\ {messages[i].sender, messages[i].recipient} = {sender, recipient}
        /\ messages[i].read = FALSE})

\* A mutant: the count is taken over all_objects, soft-deleted rows included.
get_unread_count_with_deleted(sender, recipient) ==
    Cardinality({i \in all_objects :
        /\ messages[i].sender = sender
        /\ messages[i].recipient = recipient
        /\ messages[i].read = FALSE})

\* MessageModel.get_unread_count_for_dialog_with_user
get_unread_count_for_dialog_with_user(sender, recipient) ==
    Cardinality({i \in objects :
        /\ messages[i].sender = sender
        /\ messages[i].recipient = recipient
        /\ messages[i].read = FALSE})

----------------------------------------------------------------------------
(* Request handlers *)

\* An identifier that is the key of no row of the user table.
UnknownUser == NumUsers + 1

\* The identifiers a caller may hand to an operation.
UserIds == Users \cup {UnknownUser}

\* The ForeignKey fields user1, user2, sender and recipient: a row is stored
\* only when the identifier is the key of a user.
ForeignKeyOK(u) == u \in Users

\* A handler that holds no instance of a stored message.
NoInstance == <<>>

\* A handler's call: the operation ("save" for MessageModel.save), the two
\* users handed to create_if_not_exists, the id of the message row that the
\* save inserted or that the held instance was loaded from (None otherwise),
\* and the instance, a one-element sequence with the columns the handler
\* read when it loaded the row.
NoCall == [op |-> "none", u1 |-> None, u2 |-> None, msg |-> None, inst |-> NoInstance]

\* The call that returned last: the operation, how the call ended and the
\* value a query returned.
NoReturn == [op |-> "none", result |-> "none", value |-> None]

Init ==
    /\ dialogs = <<>>
    /\ messages = <<>>
    /\ pc = [p \in Procs |-> "idle"]
    /\ call = [p \in Procs |-> NoCall]
    /\ returned = NoReturn
    /\ d1 = [id |-> "a", creator |-> [id |-> 1, was_online |-> None, is_online |-> FALSE],
             opponent |-> [id |-> 1, was_online |-> None, is_online |-> FALSE]]
    /\ d2 = d1
    /\ vmPc = "off"
    /\ eqRes = <<FALSE, FALSE, FALSE>>

\* The call c of handler p ends: with "ok" when it returns, with the name of
\* the exception when it raises.
Return(p, c, result) ==
    /\ pc' = [pc EXCEPT ![p] = "idle"]
    /\ call' = [call EXCEPT ![p] = NoCall]
    /\ returned' = [op |-> c.op, result |-> result, value |-> None]

\* MessageModel.save, first statement, for a new message: super().save()
\* inserts the row with read = False and is_removed = False.  The insert is
\* rejected with IntegrityError when sender or recipient is the key of no
\* user, and the error ends the call.
SendSave(p, s, r) ==
    /\ pc[p] = "idle"
    /\ IF ForeignKeyOK(s) /\ ForeignKeyOK(r)
       THEN /\ Len(messages) < MaxMessages
            /\ messages' = Append(messages,
                    [sender |-> s, recipient |-> r, read |-> FALSE, is_removed |-> FALSE])
            /\ pc' = [pc EXCEPT ![p] = "saved"]
            /\ call' = [call EXCEPT ![p] =
                    [op |-> "save", u1 |-> s, u2 |-> r, msg |-> Len(messages) + 1,
                     inst |-> NoInstance]]
            /\ returned' = returned
       ELSE /\ messages' = messages
            /\ Return(p, [op |-> "save", u1 |-> s, u2 |-> r, msg |-> None,
                          inst |-> NoInstance], "IntegrityError")
    /\ UNCHANGED <<dialogs, vmVars>>

\* The handler loads the stored message m through a manager of MessageModel:
\* its instance holds the columns of the row as they are now.
Load(p, m) ==
    /\ pc[p] = "idle"
    /\ m \in all_objects
    /\ pc' = [pc EXCEPT ![p] = "loaded"]
    /\ call' = [call EXCEPT ![p] =
            [op |-> "none", u1 |-> None, u2 |-> None, msg |-> m,
             inst |-> <<messages[m]>>]]
    /\ UNCHANGED <<dialogs, messages, returned, vmVars>>

\* MessageModel.save, first statement, for the instance self of a stored
\* message: super().save() updates the row, writing every column of self.
InstanceSave(p, self) ==
    /\ messages' = [messages EXCEPT ![call[p].msg] = self]
    /\ pc' = [pc EXCEPT ![p] = "saved"]
    /\ call' = [call EXCEPT ![p] =
            [op |-> "save", u1 |-> self.sender, u2 |-> self.recipient, msg |-> None,
             inst |-> NoInstance]]
    /\ UNCHANGED <<dialogs, returned, vmVars>>

\* A mutant: the re-save inserts a second row instead of updating the first.
MarkReadSaveInsert(p) ==
    /\ pc[p] = "loaded"
    /\ messages' = Append(messages, [call[p].inst[1] EXCEPT !.read = TRUE])
    /\ pc' = [pc EXCEPT ![p] = "saved"]
    /\ call' = [call EXCEPT ![p] =
            [op |-> "save", u1 |-> call[p].inst[1].sender,
             u2 |-> call[p].inst[1].recipient, msg |-> None,
             inst |-> NoInstance]]
    /\ UNCHANGED <<dialogs, returned, vmVars>>

\* The handler sets read to True on the instance it loaded and calls
\* MessageModel.save.
MarkReadSave(p) ==
    /\ pc[p] = "loaded"
    /\ InstanceSave(p, [call[p].inst[1] EXCEPT !.read = TRUE])

\* The handler deletes the message it loaded: the delete() that MessageModel
\* inherits from SoftDeletableModel sets is_removed on the instance and calls
\* MessageModel.save.
SoftDeleteSave(p) ==
    /\ pc[p] = "loaded"
    /\ InstanceSave(p, [call[p].inst[1] EXCEPT !.is_removed = TRUE])

\* The handler calls MessageModel.save on the instance it loaded without
\* having set read or is_removed.
Resave(p) ==
    /\ pc[p] = "loaded"
    /\ InstanceSave(p, call[p].inst[1])

\* A mutant: the test after the lookup is inverted ("if res:").
ExistsCheckInverted(p, c) ==
    IF dialog_exists(c.u1, c.u2) = None
    THEN Return(p, c, "ok")
    ELSE /\ pc' = [pc EXCEPT ![p] = "absent"]
         /\ call' = [call EXCEPT ![p] = c]
         /\ returned' = returned

\* DialogsModel.create_if_not_exists, first statement and the test after it:
\* res = dialog_exists(u1, u2); the call returns when res is a row, and goes
\* on to the insert when res is None.
ExistsCheck(p, c) ==
    IF dialog_exists(c.u1, c.u2) # None
    THEN Return(p, c, "ok")
    ELSE /\ pc' = [pc EXCEPT ![p] = "absent"]
         /\ call' = [call EXCEPT ![p] = c]
         /\ returned' = returned

\* MessageModel.save, second statement: create_if_not_exists(sender, recipient).
SaveCheck(p) ==
    /\ pc[p] = "saved"
    /\ ExistsCheck(p, call[p])
    /\ UNCHANGED <<dialogs, messages, vmVars>>

\* A handler calls DialogsModel.create_if_not_exists(u1, u2) directly.
CreateCheck(p, u1, u2) ==
    /\ pc[p] = "idle"
    /\ ExistsCheck(p, [op |-> "create_if_not_exists", u1 |-> u1, u2 |-> u2,
                       msg |-> None, inst |-> NoInstance])
    /\ UNCHANGED <<dialogs, messages, vmVars>>

\* A mutant: the insert first deletes the rows stored for the pair.
CreateInsertReplace(p) ==
    /\ pc[p] = "absent"
    /\ dialogs' = Append(
            SelectSeq(dialogs, LAMBDA d :
                {d.user1, d.user2} # {call[p].u1, call[p].u2}),
            [user1 |-> call[p].u1, user2 |-> call[p].u2])
    /\ Return(p, call[p], "ok")
    /\ UNCHANGED <<messages, vmVars>>

\* DialogsModel.create_if_not_exists, last statement:
\* DialogsModel.objects.create(user1=u1, user2=u2).  The insert is rejected
\* with IntegrityError when u1 or u2 is the key of no user or when the
\* ordered pair is stored already; nothing catches the error, so it ends the
\* call (and the save that made it).
CreateInsert(p) ==
    /\ pc[p] = "absent"
    /\ IF /\ ForeignKeyOK(call[p].u1)
          /\ ForeignKeyOK(call[p].u2)
          /\ UniqueDialog(call[p].u1, call[p].u2)
       THEN /\ dialogs' = Append(dialogs, [user1 |-> call[p].u1, user2 |-> call[p].u2])
            /\ Return(p, call[p], "ok")
       ELSE /\ dialogs' = dialogs
            /\ Return(p, call[p], "IntegrityError")
    /\ UNCHANGED <<messages, vmVars>>

Next ==
    \/ \E p \in Procs, s \in Users, r \in Users : SendSave(p, s, r)
    \/ \E p \in Procs, m \in 1..MaxMessages : Load(p, m)
    \/ \E p \in Procs : MarkReadSave(p)
    \/ \E p \in Procs : SoftDeleteSave(p)
    \/ \E p \in Procs : Resave(p)
    \/ \E p \in Procs : SaveCheck(p)
    \/ \E p \in Procs, u1 \in Users, u2 \in Users : CreateCheck(p, u1, u2)
    \/ \E p \in Procs : CreateInsert(p)

Spec == Init /\ [][Next]_vars

TypeOK ==
    /\ \A i \in DOMAIN dialogs : dialogs[i] \in DialogsModel
    /\ \A i \in DOMAIN messages : messages[i] \in MessageModel \cup TimedMessageModel
    /\ Len(messages) <= MaxMessages
    /\ pc \in [Procs -> {"idle", "loaded", "saved", "absent"}]
    /\ \A p \in Procs : pc[p] = "idle" <=> call[p] = NoCall
    /\ \A p \in Procs : pc[p] = "loaded" <=>
            (call[p].inst # NoInstance /\ call[p].msg \in all_objects)
    /\ \A p \in Procs : pc[p] \in {"saved", "absent"} <=>
            call[p].op \in {"save", "create_if_not_exists"}
    /\ returned.result \in {"none", "ok", "IntegrityError"}

\* Sequential execution: a handler takes a step only while no other handler
\* is inside a call; the other handlers may hold instances they loaded.
Alone(p) == \A q \in Procs \ {p} : pc[q] \in {"idle", "loaded"}

SeqSendSave == \E p \in Procs, s \in Users, r \in Users : Alone(p) /\ SendSave(p, s, r)
SeqLoad == \E p \in Procs, m \in 1..MaxMessages : Alone(p) /\ Load(p, m)
SeqMarkReadSave == \E p \in Procs : Alone(p) /\ MarkReadSave(p)
SeqSoftDeleteSave == \E p \in Procs : Alone(p) /\ SoftDeleteSave(p)
SeqResave == \E p \in Procs : Alone(p) /\ Resave(p)
SeqSaveCheck == \E p \in Procs : Alone(p) /\ SaveCheck(p)
SeqCreateCheck == \E p \in Procs, u1 \in Users, u2 \in Users : Alone(p) /\ CreateCheck(p, u1, u2)
SeqCreateInsert == \E p \in Procs : Alone(p) /\ CreateInsert(p)

NextSeq ==
    \/ SeqSendSave
    \/ SeqLoad
    \/ SeqMarkReadSave
    \/ SeqSoftDeleteSave
    \/ SeqResave
    \/ SeqSaveCheck
    \/ SeqCreateCheck
    \/ SeqCreateInsert

SpecSeq == Init /\ [][NextSeq]_vars

----------------------------------------------------------------------------
(* Comparison of Dialog values *)

InitValue ==
    /\ dialogs = <<>>
    /\ messages = <<>>
    /\ pc = [p \in Procs |-> "idle"]
    /\ call = [p \in Procs |-> NoCall]
    /\ returned = NoReturn
    /\ d1 \in Dialog
    /\ d2 \in Dialog
    /\ vmPc = "ready"
    /\ eqRes = <<FALSE, FALSE, FALSE>>

\* Evaluate Dialog.__eq__ on (d1, d2), on (d2, d1) and on (d1, d1).
Compare ==
    /\ vmPc = "ready"
    /\ eqRes' = <<Dialog__eq__(d1, d2), Dialog__eq__(d2, d1), Dialog__eq__(d1, d1)>>
    /\ vmPc' = "compared"
    /\ UNCHANGED <<dbVars, d1, d2>>

NextValue == Compare

SpecValue == InitValue /\ [][NextValue]_vars

----------------------------------------------------------------------------
(* Calls with identifiers of users that are not stored *)

\* DialogsModel.dialog_exists called by a handler: a query; it returns the
\* row found, or None.
RefDialogExists(p, u1, u2) ==
    /\ pc[p] = "idle"
    /\ returned' = [op |-> "dialog_exists", result |-> "ok",
                    value |-> dialog_exists(u1, u2)]
    /\ UNCHANGED <<dialogs, messages, pc, call, vmVars>>

\* MessageModel.get_unread_count_for_dialog_with_user called by a handler: a
\* query; it returns the count.
RefUnreadCount(p, s, r) ==
    /\ pc[p] = "idle"
    /\ returned' = [op |-> "get_unread_count_for_dialog_with_user", result |-> "ok",
                    value |-> get_unread_count_for_dialog_with_user(s, r)]
    /\ UNCHANGED <<dialogs, messages, pc, call, vmVars>>

\* The operations that take user identifiers, statement by statement, with
\* identifiers of stored and of unknown users.
NextRef ==
    \/ \E p \in Procs, s \in UserIds, r \in UserIds : SendSave(p, s, r)
    \/ \E p \in Procs : SaveCheck(p)
    \/ \E p \in Procs, u1 \in UserIds, u2 \in UserIds : CreateCheck(p, u1, u2)
    \/ \E p \in Procs : CreateInsert(p)
    \/ \E p \in Procs, u1 \in UserIds, u2 \in UserIds : RefDialogExists(p, u1, u2)
    \/ \E p \in Procs, s \in UserIds, r \in UserIds : RefUnreadCount(p, s, r)

SpecRef == Init /\ [][NextRef]_vars

----------------------------------------------------------------------------
(* The default listing of messages *)

\* MessageModel.save, first statement, for a new message whose instance was
\* constructed at clock reading t: TimeStampedModel stamps created = t when
\* the instance is constructed, and super().save() inserts the row, at
\* whatever time the save runs.
ListSave(p, s, r, t) ==
    /\ pc[p] = "idle"
    /\ Len(messages) < MaxMessages
    /\ messages' = Append(messages,
            [sender |-> s, recipient |-> r, read |-> FALSE, is_removed |-> FALSE,
             created |-> t])
    /\ pc' = [pc EXCEPT ![p] = "saved"]
    /\ call' = [call EXCEPT ![p] =
            [op |-> "save", u1 |-> s, u2 |-> r, msg |-> Len(messages) + 1,
             inst |-> NoInstance]]
    /\ UNCHANGED <<dialogs, returned, vmVars>>

\* Meta.ordering = ('-created',): created does not increase along l.
OrderedByCreated(l) ==
    \A i \in DOMAIN l, j \in DOMAIN l :
        i < j => messages[l[i]].created >= messages[l[j]].created

\* The default listing MessageModel.objects.all(): the sequences of ids the
\* query may return.  ORDER BY created DESC fixes no order among rows of
\* equal created, so each of their orders is a possible answer.
default_listing == {l \in Permutations(objects) : OrderedByCreated(l)}

\* A handler lists the messages.
ListMessages(p) ==
    /\ pc[p] = "idle"
    /\ \E l \in default_listing :
            returned' = [op |-> "list", result |-> "ok", value |-> l]
    /\ UNCHANGED <<dialogs, messages, pc, call, vmVars>>

\* Saves of new messages, soft deletes and listings, statement by statement.
NextList ==
    \/ \E p \in Procs, s \in Users, r \in Users, t \in 1..MaxTime : ListSave(p, s, r, t)
    \/ \E p \in Procs, m \in 1..MaxMessages : Load(p, m)
    \/ \E p \in Procs : SoftDeleteSave(p)
    \/ \E p \in Procs : SaveCheck(p)
    \/ \E p \in Procs : CreateInsert(p)
    \/ \E p \in Procs : ListMessages(p)

SpecList == Init /\ [][NextList]_vars

----------------------------------------------------------------------------
(* Properties *)

\* No handler is inside a call (a handler may hold an instance it loaded).
AllIdle == \A p \in Procs : pc[p] \in {"idle", "loaded"}

\* Some message row was written between users A and B, in either direction.
MessageBetween(A, B) ==
    \E i \in DOMAIN messages :
        {messages[i].sender, messages[i].recipient} = {A, B}

\* C1: once every concurrent call has finished, each pair of distinct users
\* for which a dialog or a message was written has exactly one dialog row.
C1_ExactlyOneDialogAfterRace ==
    AllIdle =>
        \A A \in Users, B \in Users :
            (A # B /\ (DialogFilter(A, B) # {} \/ MessageBetween(A, B)))
                => Cardinality(DialogFilter(A, B)) = 1

\* C2: no call to create_if_not_exists or MessageModel.save ever ends by
\* raising the storage's uniqueness error to its caller.
C2_RaceNeverSurfaces == returned.result # "IntegrityError"

\* C3: in sequential execution every pair of users has at most one dialog
\* row, a stored row is found by dialog_exists in both orientations, and
\* between calls every pair that exchanged a message has exactly one row.
C3_SequentialOneDialog ==
    /\ \A A \in Users, B \in Users : Cardinality(DialogFilter(A, B)) <= 1
    /\ \A i \in DOMAIN dialogs :
            /\ dialog_exists(dialogs[i].user1, dialogs[i].user2) = i
            /\ dialog_exists(dialogs[i].user2, dialogs[i].user1) = i
    /\ AllIdle =>
            \A A \in Users, B \in Users :
                MessageBetween(A, B) => Cardinality(DialogFilter(A, B)) = 1

\* Messages were saved in both directions between two distinct users, every
\* call has returned, and the pair has its one dialog row.
C3_Witness ==
    /\ AllIdle
    /\ \E i \in DOMAIN messages, j \in DOMAIN messages :
            /\ messages[i].sender # messages[i].recipient
            /\ messages[j].sender = messages[i].recipient
            /\ messages[j].recipient = messages[i].sender
            /\ Cardinality(DialogFilter(messages[i].sender, messages[i].recipient)) = 1

\* C4: a save of a new message that ends with an error leaves no message
\* row behind: when the call that inserted row msg ends by raising, the row
\* is no longer stored.
C4_FailedSaveLeavesNoMessage ==
    [][\A p \in Procs :
        (CreateInsert(p) /\ call[p].op = "save" /\ call[p].msg # None
            /\ returned'.result # "ok")
                => call[p].msg \notin all_objects']_vars

\* C5: in every state, each stored message has a stored dialog row for its
\* pair of users.
C5_MessageImpliesDialog ==
    \A i \in DOMAIN messages :
        DialogFilter(messages[i].sender, messages[i].recipient) # {}

\* C6: when a save of a new message from A to B returns successfully,
\* dialog_exists(A, B) and dialog_exists(B, A) both return a row.
C6_DialogPresentAfterSave ==
    [][\A p \in Procs, A \in Users, B \in Users :
        (/\ call[p].op = "save" /\ call[p].msg # None
         /\ call[p].u1 = A /\ call[p].u2 = B
         /\ pc'[p] = "idle" /\ returned'.result = "ok"
         /\ SaveCheck(p) \/ CreateInsert(p))
            => (dialog_exists(A, B)' # None /\ dialog_exists(B, A)' # None)]_vars

\* The save of the first message returned successfully and created the only
\* dialog row, for the message's sender and recipient.
C6_Witness ==
    /\ returned = [op |-> "save", result |-> "ok", value |-> None]
    /\ \A p \in Procs : pc[p] = "idle"
    /\ Len(messages) = 1
    /\ messages[1].sender # messages[1].recipient
    /\ ~messages[1].read /\ ~messages[1].is_removed
    /\ dialogs = <<[user1 |-> messages[1].sender, user2 |-> messages[1].recipient]>>

\* The number of rows of the message table, counted row by row, that are not
\* soft-deleted, are unread and go from sender to recipient.
RECURSIVE CountUnread(_, _, _)
CountUnread(n, sender, recipient) ==
    IF n = 0 THEN 0
    ELSE CountUnread(n - 1, sender, recipient) +
         (IF /\ messages[n].sender = sender
             /\ messages[n].recipient = recipient
             /\ ~messages[n].read
             /\ ~messages[n].is_removed
          THEN 1 ELSE 0)

\* C7: the unread count for (A, B) is the number of stored, not soft-deleted,
\* unread messages from A to B; it is 0 when every message from A to B is
\* read; a new message from s to r raises the count for (s, r) by exactly 1
\* and changes the count of no other ordered pair.
C7_UnreadCountDirectional ==
    /\ [](\A A \in Users, B \in Users :
            /\ get_unread_count_for_dialog_with_user(A, B)
                    = CountUnread(Len(messages), A, B)
            /\ (\A i \in DOMAIN messages :
                    (messages[i].sender = A /\ messages[i].recipient = B)
                        => messages[i].read)
                => get_unread_count_for_dialog_with_user(A, B) = 0)
    /\ [][\A p \in Procs, s \in Users, r \in Users :
            SendSave(p, s, r) =>
                \A A \in Users, B \in Users :
                    get_unread_count_for_dialog_with_user(A, B)' =
                        get_unread_count_for_dialog_with_user(A, B)
                            + (IF A = s /\ B = r THEN 1 ELSE 0)]_vars

\* Two unread messages went one way and were counted, none the other way.
C7_Witness ==
    \E A \in Users, B \in Users :
        /\ A # B
        /\ get_unread_count_for_dialog_with_user(A, B) = 2
        /\ get_unread_count_for_dialog_with_user(B, A) = 0

\* C8: soft-deleting a listed unread message from A to B lowers the unread
\* count for (A, B) by exactly 1 and leaves every other count unchanged;
\* soft-deleting a read message leaves every count unchanged.
C8_SoftDeleteUnreadCount ==
    [][\A p \in Procs :
        SoftDeleteSave(p) =>
            LET m == call[p].msg
            IN \A A \in Users, B \in Users :
                get_unread_count_for_dialog_with_user(A, B)' =
                    get_unread_count_for_dialog_with_user(A, B)
                        - (IF /\ m \in objects
                              /\ ~messages[m].read
                              /\ messages[m].sender = A
                              /\ messages[m].recipient = B
                           THEN 1 ELSE 0)]_vars

\* An unread message was soft-deleted and no longer counts, while a read
\* message was soft-deleted too.
C8_Witness ==
    /\ Len(messages) = 2
    /\ messages[1].is_removed /\ ~messages[1].read
    /\ messages[2].is_removed /\ messages[2].read
    /\ get_unread_count_for_dialog_with_user(messages[1].sender,
                                             messages[1].recipient) = 0

\* C9: a soft-deleted message is outside MessageModel.objects and inside
\* MessageModel.all_objects; no step takes a row out of all_objects, and no
\* step brings a row that left objects back into it.
C9_SoftDeletedHiddenButKept ==
    /\ [](\A i \in DOMAIN messages :
            messages[i].is_removed => (i \notin objects /\ i \in all_objects))
    /\ [][/\ all_objects \subseteq all_objects'
          /\ \A i \in all_objects \ objects : i \notin objects']_vars

\* Both operands relate the same unordered pair of user ids.
SamePair(x, y) ==
    {x.creator.id, x.opponent.id} = {y.creator.id, y.opponent.id}

\* C10: d1 equals d2 exactly when both relate the same unordered pair of
\* user ids, whatever their id and presence fields; comparing d2 with d1
\* gives the same answer, and d1 equals itself.
C10_DialogEqualityIsSymmetricPair ==
    vmPc = "compared" =>
        /\ eqRes[1] <=> SamePair(d1, d2)
        /\ eqRes[2] <=> eqRes[1]
        /\ eqRes[3]

\* Dialog(creator=A, opponent=B) compared equal to a Dialog(creator=B,
\* opponent=A) with another id and other presence fields.
C10_Witness ==
    /\ vmPc = "compared"
    /\ d1.creator.id # d1.opponent.id
    /\ d2.creator.id = d1.opponent.id
    /\ d2.opponent.id = d1.creator.id
    /\ d1.id # d2.id
    /\ d1.creator.is_online # d2.opponent.is_online
    /\ eqRes[1]

\* C11: a call of create_if_not_exists(A, B), direct or from a save, made
\* while a dialog row for {A, B} is stored in either orientation returns at
\* once, without an insert, and leaves the dialog table as it was.
C11_CreateIdempotentOnExisting ==
    [][\A p \in Procs :
        /\ \A u1 \in Users, u2 \in Users :
                (CreateCheck(p, u1, u2) /\ DialogFilter(u1, u2) # {})
                    => (dialogs' = dialogs /\ pc'[p] = "idle"
                        /\ returned'.result = "ok")
        /\ (SaveCheck(p) /\ DialogFilter(call[p].u1, call[p].u2) # {})
                => (dialogs' = dialogs /\ pc'[p] = "idle"
                    /\ returned'.result = "ok")]_vars

\* A message from B to A was saved successfully while the only dialog row
\* was, and still is, the one stored as (A, B).
C11_Witness ==
    /\ returned.op = "save" /\ returned.result = "ok"
    /\ AllIdle
    /\ Len(dialogs) = 1
    /\ dialogs[1].user1 # dialogs[1].user2
    /\ \E i \in DOMAIN messages :
            /\ messages[i].sender = dialogs[1].user2
            /\ messages[i].recipient = dialogs[1].user1

\* C13: every dialog row relates two different users.
C13_DialogHasTwoUsers ==
    \A i \in DOMAIN dialogs : dialogs[i].user1 # dialogs[i].user2

\* The number of times x occurs in the sequence s.
Occurrences(s, x) == Cardinality({k \in DOMAIN s : s[k] = x})

\* C14: every sequence get_dialogs_for_user(U) may return lists the
\* (user1, user2) of every dialog row with U as user1 or user2, once per row,
\* and nothing else.
C14_DialogsForUserExact ==
    \A U \in Users :
        \A listed \in get_dialogs_for_user(U) :
           /\ Len(listed) =
                    Cardinality({i \in DOMAIN dialogs :
                        dialogs[i].user1 = U \/ dialogs[i].user2 = U})
           /\ \A a \in Users, b \in Users :
                    Occurrences(listed, <<a, b>>) =
                        IF U \in {a, b}
                        THEN Cardinality({i \in DOMAIN dialogs :
                                dialogs[i].user1 = a /\ dialogs[i].user2 = b})
                        ELSE 0

\* A user has two dialogs, one of them stored with the user as user2, and
\* both are listed.
C14_Witness ==
    \E U \in Users :
        \E listed \in get_dialogs_for_user(U) :
           /\ Len(listed) = 2
           /\ \E k \in 1..2 : listed[k][1] # U

\* C15: no step removes a dialog row or changes the (user1, user2) of a
\* stored one; the table only grows.
C15_DialogsOnlyGrow ==
    [][/\ Len(dialogs') >= Len(dialogs)
       /\ \A i \in DOMAIN dialogs : dialogs'[i] = dialogs[i]]_vars

\* Two dialog rows are stored and kept while a message was marked read and
\* soft-deleted.
C15_Witness ==
    /\ Len(dialogs) = 2
    /\ \E i \in DOMAIN messages : messages[i].read /\ messages[i].is_removed
    /\ returned.op = "save"

\* C17: no two dialog rows hold the same ordered (user1, user2), and an
\* insert of an ordered pair that is stored already is rejected with
\* IntegrityError and adds no row.
C17_OrderedPairUnique ==
    /\ [](\A i \in DOMAIN dialogs, j \in DOMAIN dialogs :
            (dialogs[i].user1 = dialogs[j].user1
                /\ dialogs[i].user2 = dialogs[j].user2) => i = j)
    /\ [][\A p \in Procs :
            (CreateInsert(p) /\ \E i \in DOMAIN dialogs :
                    /\ dialogs[i].user1 = call[p].u1
                    /\ dialogs[i].user2 = call[p].u2)
                => (dialogs' = dialogs
                    /\ returned'.result = "IntegrityError")]_vars

\* Two direct calls for the same ordered pair both saw no dialog; the second
\* insert was rejected and one row is stored.
C17_Witness ==
    /\ returned = [op |-> "create_if_not_exists",
                   result |-> "IntegrityError", value |-> None]
    /\ Len(dialogs) = 1
    /\ messages = <<>>

\* C18: in sequential execution a re-save of a stored message (read set,
\* the soft-delete flag set, or neither) updates the row in place, runs
\* create_if_not_exists, which finds the dialog and returns without an
\* insert or an error; the dialog table and the number of message rows stay
\* as they were.
C18_ResaveKeepsTables ==
    /\ [](\A p \in Procs :
            (call[p].op = "save" /\ call[p].msg = None) =>
                (pc[p] = "saved" /\ DialogFilter(call[p].u1, call[p].u2) # {}))
    /\ [][\A p \in Procs :
            /\ (MarkReadSave(p) \/ SoftDeleteSave(p) \/ Resave(p))
                    => (Len(messages') = Len(messages) /\ dialogs' = dialogs
                        /\ pc'[p] = "saved")
            /\ (SaveCheck(p) /\ call[p].msg = None)
                    => (Len(messages') = Len(messages) /\ dialogs' = dialogs
                        /\ pc'[p] = "idle" /\ returned'.result = "ok")]_vars

\* The only message was marked read and then soft-deleted; the last re-save
\* returned with the one dialog row still the only one.
C18_Witness ==
    /\ returned = [op |-> "save", result |-> "ok", value |-> None]
    /\ AllIdle
    /\ Len(messages) = 1
    /\ messages[1].read /\ messages[1].is_removed
    /\ dialogs = <<[user1 |-> messages[1].sender, user2 |-> messages[1].recipient]>>

\* C12: an operation given an identifier that is the key of no user ends
\* with a referential-integrity error: the save of a new message, the insert
\* of create_if_not_exists, dialog_exists and the unread count.
C12_UnknownUserFails ==
    [][\A p \in Procs, u1 \in UserIds, u2 \in UserIds :
        (~ForeignKeyOK(u1) \/ ~ForeignKeyOK(u2)) =>
            /\ SendSave(p, u1, u2) => returned'.result = "IntegrityError"
            /\ (CreateInsert(p) /\ call[p].u1 = u1 /\ call[p].u2 = u2)
                    => returned'.result = "IntegrityError"
            /\ RefDialogExists(p, u1, u2) => returned'.result = "IntegrityError"
            /\ RefUnreadCount(p, u1, u2) => returned'.result = "IntegrityError"]_vars

\* C16: the sequence a listing returns has created non-increasing, and it
\* is the only sequence the query can return for the rows stored then.
C16_ListingDeterministic ==
    [][\A p \in Procs :
        ListMessages(p) =>
            /\ OrderedByCreated(returned'.value)
            /\ default_listing = {returned'.value}]_vars

====
